---- MODULE Spec2Model ----
(***************************************************************************)
(* A model of convert_spreadsheets_to_csv.py: the conversion of one        *)
(* election directory of county files (CSV, "Contest Title" spreadsheets,  *)
(* blank-header spreadsheets) into one statewide table.                    *)
(*                                                                         *)
(* Text is modelled by TLA+ strings, read character by character with      *)
(* SubSeq and built with \o.  A cell of a spreadsheet or data frame is a   *)
(* record: Str(s) a text cell, Num(n) a numeric cell, NaN a missing cell.  *)
(***************************************************************************)
EXTENDS Integers, Sequences, FiniteSets, TLC

\* ------------------------------------------------------------- bounds
\* Files of the directory that one run iterates over.
MaxFiles == 2
\* Rows of the table handed to the normalizer on its own.
MaxNormRows == 2
\* Times the normalizer is applied to its own output.
MaxPasses == 2

\* --------------------------------------------------------- characters
Lowers == "abcdefghijklmnopqrstuvwxyz"
Uppers == "ABCDEFGHIJKLMNOPQRSTUVWXYZ"
Digits == "0123456789"
\* The printable ASCII characters in code-point order: 32 (space) to 95, and
\* 97 to 126 (the grave accent, 96, cannot be written in a string here).
AsciiLow == " !\"#$%&'()*+,-./0123456789:;<=>?@ABCDEFGHIJKLMNOPQRSTUVWXYZ[\\]^_"
AsciiHigh == "abcdefghijklmnopqrstuvwxyz{|}~"

\* The character of s at position i (1-based); "" outside the string.
Ch(s, i) == IF 1 <= i /\ i <= Len(s) THEN SubSeq(s, i, i) ELSE ""

IndexOf(c, alpha) ==
  IF \E i \in 1..Len(alpha) : Ch(alpha, i) = c
  THEN CHOOSE i \in 1..Len(alpha) : Ch(alpha, i) = c
  ELSE 0

IsLower(c) == IndexOf(c, Lowers) > 0
IsUpper(c) == IndexOf(c, Uppers) > 0
IsDigit(c) == IndexOf(c, Digits) > 0
\* \w of Python's re on ASCII text: a letter, a digit or the underscore.
IsWordChar(c) == IsLower(c) \/ IsUpper(c) \/ IsDigit(c) \/ c = "_"
\* \s, and what str.strip() removes.
IsSpace(c) == c \in {" ", "\t", "\n", "\r", "\f"}
ToUpper(c) == IF IsLower(c) THEN Ch(Uppers, IndexOf(c, Lowers)) ELSE c
ToLower(c) == IF IsUpper(c) THEN Ch(Lowers, IndexOf(c, Uppers)) ELSE c
\* ord(c): the tab is 9, the printable characters start at 32.
Ord(c) ==
  IF c = "\t" THEN 9
  ELSE IF IndexOf(c, AsciiLow) > 0 THEN IndexOf(c, AsciiLow) + 31
  ELSE IndexOf(c, AsciiHigh) + 96

StartsWithAt(s, i, p) ==
  /\ i >= 1
  /\ i + Len(p) - 1 <= Len(s)
  /\ SubSeq(s, i, i + Len(p) - 1) = p

\* First position >= i of s that is not a digit (Len(s)+1 when none).
RECURSIVE DigitRunEnd(_, _)
DigitRunEnd(s, i) ==
  IF i <= Len(s) /\ IsDigit(Ch(s, i)) THEN DigitRunEnd(s, i + 1) ELSE i

\* First position >= i of s that is a word character (Len(s)+1 when none).
RECURSIVE NonWordRunEnd(_, _)
NonWordRunEnd(s, i) ==
  IF i <= Len(s) /\ ~IsWordChar(Ch(s, i)) THEN NonWordRunEnd(s, i + 1) ELSE i

\* First position >= i of s that is not white space (Len(s)+1 when none).
RECURSIVE SpaceRunEnd(_, _)
SpaceRunEnd(s, i) ==
  IF i <= Len(s) /\ IsSpace(Ch(s, i)) THEN SpaceRunEnd(s, i + 1) ELSE i

\* int(s) of a string of digits.
RECURSIVE ParseInt(_)
ParseInt(s) ==
  IF s = "" THEN 0
  ELSE 10 * ParseInt(SubSeq(s, 1, Len(s) - 1)) + (IndexOf(Ch(s, Len(s)), Digits) - 1)

\* str(n) of a natural number.
RECURSIVE FormatInt(_)
FormatInt(n) ==
  IF n < 10 THEN Ch(Digits, n + 1)
  ELSE FormatInt(n \div 10) \o Ch(Digits, (n % 10) + 1)

\* a < b as Python compares two str values: by code point, a proper prefix first.
RECURSIVE StrLess(_, _)
StrLess(a, b) ==
  IF b = "" THEN FALSE
  ELSE IF a = "" THEN TRUE
  ELSE IF Ch(a, 1) = Ch(b, 1) THEN StrLess(Tail(a), Tail(b))
  ELSE Ord(Ch(a, 1)) < Ord(Ch(b, 1))

\* str.strip()
RECURSIVE LStrip(_)
LStrip(s) == IF s # "" /\ IsSpace(Ch(s, 1)) THEN LStrip(Tail(s)) ELSE s
RECURSIVE RStrip(_)
RStrip(s) ==
  IF s # "" /\ IsSpace(Ch(s, Len(s))) THEN RStrip(SubSeq(s, 1, Len(s) - 1)) ELSE s
Strip(s) == RStrip(LStrip(s))

\* str.title(): a cased character is upper-cased after an uncased one (or at
\* the start) and lower-cased after a cased one.
RECURSIVE TitleFrom(_, _, _)
TitleFrom(s, i, prevCased) ==
  IF i > Len(s) THEN ""
  ELSE LET c == Ch(s, i)
           cased == IsLower(c) \/ IsUpper(c)
           d == IF ~cased THEN c
                ELSE IF prevCased THEN ToLower(c) ELSE ToUpper(c)
       IN d \o TitleFrom(s, i + 1, cased)
Title(s) == TitleFrom(s, 1, FALSE)

\* str.replace(old, ""), old not empty: every occurrence, left to right.
RECURSIVE RemoveAll(_, _)
RemoveAll(s, old) ==
  IF s = "" THEN ""
  ELSE IF StartsWithAt(s, 1, old) THEN RemoveAll(SubSeq(s, Len(old) + 1, Len(s)), old)
  ELSE Ch(s, 1) \o RemoveAll(Tail(s), old)

\* -------------------------------------------------------------- cells
NaN == [t |-> "nan", s |-> "", n |-> 0]
Str(x) == [t |-> "str", s |-> x, n |-> 0]
Num(x) == [t |-> "num", s |-> "", n |-> x]
IsNaN(c) == c.t = "nan"
IsStr(c) == c.t = "str"
IsNum(c) == c.t = "num"
\* Python's None, as identifyOfficeAndDistrict and identifyCandidateAndParty return it.
None == [t |-> "none", s |-> "", n |-> 0]
\* The truth value Python gives a str or None in "if x:".
Truthy(c) == IsStr(c) /\ c.s # ""


\* ------------------------------------------------ the processor's tables
\* self.office_map
office_map ==
  ("President And Vice President Of The United States" :> "President") @@
  ("President Of The United States" :> "President") @@
  ("United States Representative" :> "U.S. House") @@
  ("US Rep" :> "U.S. House") @@
  ("United States Senator" :> "U.S. Senate") @@
  ("State Senator" :> "State Senate") @@
  ("State Sen" :> "State Senate") @@
  ("State Representative" :> "State House") @@
  ("State Rep" :> "State House")

\* A pseudo-candidate map that also maps its own value back.
candidate_map_Toggling == ("Write-In" :> "Write-ins") @@ ("Write-ins" :> "Write-In")

\* self.candidate_map
candidate_map == ("Write-In" :> "Write-ins")

\* self.valid_offices
valid_offices ==
  {"President", "U.S. Senate", "U.S. House", "Governor", "Lieutenant Governor",
   "State Senate", "State House", "Attorney General", "Secretary of State",
   "State Treasurer"}

\* -------------------------------------------------------------- paths
\* str.rfind('/') + 1: the position (1-based) of the last slash, 0 when none.
LastSlash(p) ==
  IF \E i \in 1..Len(p) : Ch(p, i) = "/"
  THEN CHOOSE i \in 1..Len(p) : Ch(p, i) = "/" /\ \A j \in (i+1)..Len(p) : Ch(p, j) # "/"
  ELSE 0

RECURSIVE RStripSlashes(_)
RStripSlashes(s) ==
  IF s # "" /\ Ch(s, Len(s)) = "/" THEN RStripSlashes(SubSeq(s, 1, Len(s) - 1)) ELSE s

\* os.path.split(p) of posixpath: <<head, tail>>
PathSplit(p) ==
  LET i == LastSlash(p)
      head == SubSeq(p, 1, i)
      tail == SubSeq(p, i + 1, Len(p))
  IN <<IF head # "" /\ RStripSlashes(head) # "" THEN RStripSlashes(head) ELSE head, tail>>

\* os.path.dirname(p)
PathDirname(p) == PathSplit(p)[1]

\* A year test that lets the elections from 2012 on through.
YearSupported_From2012(year) == year >= 2012

\* year >= 2014 of __new__
YearSupported(year) == year >= 2014

\* XLSProcessor.__new__ called on the class itself: the class of the object it
\* returns, "None" when it falls off its end, or the exception it raises
\* (the year is read without having been bound when the name does not match).
NewProcessor(inDirPath) ==
  LET deepest_dirname == PathSplit(PathDirname(inDirPath))[2]
      m == /\ StartsWithAt(deepest_dirname, 1, "20")
           /\ IsDigit(Ch(deepest_dirname, 3))
           /\ IsDigit(Ch(deepest_dirname, 4))
  IN IF ~m THEN "UnboundLocalError"
     ELSE IF YearSupported(ParseInt(SubSeq(deepest_dirname, 1, 4)))
          THEN "XLSProcessor_2014"
          ELSE "None"

\* re.match(r'\d{4}-(General|Primary)-(.*)\.(csv|xlsx|xls)', basename):
\* [ok, county (group 2), ext (group 3)].  The match starts at the first
\* character and need not reach the last; (.*) is greedy, so the last dot that
\* one of the extensions follows ends the county name.
FileNameMatch(name) ==
  LET dots == {p \in 14..Len(name) :
                 /\ Ch(name, p) = "."
                 /\ \/ StartsWithAt(name, p + 1, "csv")
                    \/ StartsWithAt(name, p + 1, "xlsx")
                    \/ StartsWithAt(name, p + 1, "xls")
                 /\ \A q \in 14..(p - 1) : Ch(name, q) # "\n"}
      head == /\ \A i \in 1..4 : IsDigit(Ch(name, i))
              /\ Ch(name, 5) = "-"
              /\ \/ StartsWithAt(name, 6, "General-")
                 \/ StartsWithAt(name, 6, "Primary-")
  IN IF ~head \/ dots = {} THEN [ok |-> FALSE, county |-> "", ext |-> ""]
     ELSE LET p == CHOOSE d \in dots : \A e \in dots : e <= d
          IN [ok |-> TRUE,
              county |-> SubSeq(name, 14, p - 1),
              ext |-> IF StartsWithAt(name, p + 1, "csv") THEN "csv"
                      ELSE IF StartsWithAt(name, p + 1, "xlsx") THEN "xlsx"
                      ELSE "xls"]

\* ------------------------------------------------------ label patterns
\* The least member of a set of positions, 0 for the empty set.
Leftmost(hits) == IF hits = {} THEN 0 ELSE CHOOSE h \in hits : \A g \in hits : h <= g

\* '(DISTRICT NO. )(\d+)' matches contest from position j; the dot of "NO."
\* is the pattern's any-character.
LongDistrictAt(contest, j) ==
  /\ StartsWithAt(contest, j, "DISTRICT NO")
  /\ Ch(contest, j + 11) \notin {"", "\n"}
  /\ Ch(contest, j + 12) = " "
  /\ IsDigit(Ch(contest, j + 13))

\* '[ ,] (DISTRICT NO. )?(\d+)' matches contest from position i.
DistrictAt(contest, i) ==
  /\ Ch(contest, i) \in {" ", ","}
  /\ Ch(contest, i + 1) = " "
  /\ (LongDistrictAt(contest, i + 2) \/ IsDigit(Ch(contest, i + 2)))

\* A match that starts after its separator character, which stays in the office.
DistrictFound_KeepSeparator(contest, i, d) ==
  IF i = 0 THEN [found |-> FALSE, start |-> 0, district |-> ""]
  ELSE [found |-> TRUE, start |-> i,
        district |-> SubSeq(contest, d, DigitRunEnd(contest, d) - 1)]

\* The match at position i (0: none) whose digits start at position d.
DistrictFound(contest, i, d) ==
  IF i = 0 THEN [found |-> FALSE, start |-> 0, district |-> ""]
  ELSE [found |-> TRUE, start |-> i - 1,
        district |-> SubSeq(contest, d, DigitRunEnd(contest, d) - 1)]

DistrictFoundAt(contest, i) ==
  DistrictFound(contest, i, IF LongDistrictAt(contest, i + 2) THEN i + 15 ELSE i + 2)

\* re.compile(r'[ ,] (DISTRICT NO. )?(\d+)').search(contest):
\* [found, start (m.span()[0], 0-based), district (m.group(2))].
DistrictSearch(contest) ==
  DistrictFoundAt(contest, Leftmost({i \in 1..Len(contest) : DistrictAt(contest, i)}))

\* '[\W]+[Dd]ist[\W]+' matches contest from position i, where the run of
\* non-word characters starting at i ends before position e.
DistAt(contest, i, e) ==
  /\ ~IsWordChar(Ch(contest, i))
  /\ Ch(contest, e) \in {"D", "d"}
  /\ StartsWithAt(contest, e + 1, "ist")
  /\ e + 4 <= Len(contest)
  /\ ~IsWordChar(Ch(contest, e + 4))

\* The parts left of and right of the leftmost match at or after from, the
\* right part split in its turn; i is that match's position, 0 when none.
RECURSIVE SplitDistFrom(_, _)
SplitDistAt(contest, from, i) ==
  IF i = 0 THEN <<SubSeq(contest, from, Len(contest))>>
  ELSE <<SubSeq(contest, from, i - 1)>>
       \o SplitDistFrom(contest, NonWordRunEnd(contest, NonWordRunEnd(contest, i) + 4))

\* re.compile('[\W]+[Dd]ist[\W]+').split(contest), reading from position from.
SplitDistFrom(contest, from) ==
  SplitDistAt(contest, from,
              Leftmost({i \in from..Len(contest) : DistAt(contest, i, NonWordRunEnd(contest, i))}))
SplitDist(contest) == SplitDistFrom(contest, 1)

\* '\s*\(\s*(\w)\s*\)' matches s with its "(" at position a, its word
\* character at b and its ")" at c.
PartyAt(s, a, b, c) == Ch(s, a) = "(" /\ IsWordChar(Ch(s, b)) /\ Ch(s, c) = ")"
PartyWord(s, i) == SpaceRunEnd(s, SpaceRunEnd(s, i) + 1)
PartyClose(s, i) == SpaceRunEnd(s, PartyWord(s, i) + 1)
PartyFound(s, i) ==
  IF i = 0 THEN [found |-> FALSE, party |-> "", whole |-> ""]
  ELSE [found |-> TRUE,
        party |-> Ch(s, PartyWord(s, i)),
        whole |-> SubSeq(s, i, SpaceRunEnd(s, PartyClose(s, i) + 1) - 1)]

\* re.compile('\s*\(\s*(\w)\s*\)\s*').search(origCandidate):
\* [found, party (m.group(1)), whole (m.group(0))].
PartySearch(origCandidate) ==
  PartyFound(origCandidate,
             Leftmost({i \in 1..Len(origCandidate) :
                         PartyAt(origCandidate, SpaceRunEnd(origCandidate, i),
                                 PartyWord(origCandidate, i), PartyClose(origCandidate, i))}))

\* ------------------------------------------------------- frame helpers
\* Series.drop_duplicates(): the values in order of first appearance.
AppendNew(init, last) ==
  IF \E i \in 1..Len(init) : init[i] = last THEN init ELSE Append(init, last)
RECURSIVE DropDuplicates(_)
DropDuplicates(vals) ==
  IF vals = <<>> THEN <<>>
  ELSE AppendNew(DropDuplicates(SubSeq(vals, 1, Len(vals) - 1)), vals[Len(vals)])

HasVotes(r) == ~IsNaN(r.votes)
\* dropna(how='any', subset=['votes'])
DropNaVotes(df) == SelectSeq(df, HasVotes)

\* The result of a step that can raise: the frame, or the exception's name.
Ok(df) == [err |-> "", df |-> df]
Raised(e) == [err |-> e, df |-> <<>>]

\* stripCellsDropEmptyRows: every str cell stripped, '' replaced by NaN, and
\* the rows left with NaN only dropped.  first0 tells whether the row
\* labelled 0 is still in the frame.
StripCell(c) == IF IsStr(c) THEN (IF Strip(c.s) = "" THEN NaN ELSE Str(Strip(c.s))) ELSE c
StripRow(row) == [j \in DOMAIN row |-> StripCell(row[j])]
NotAllNaN(row) == \E j \in DOMAIN row : ~IsNaN(row[j])
StripRows(grid) == [i \in DOMAIN grid |-> StripRow(grid[i])]
Cleaned(stripped) ==
  [first0 |-> Len(stripped) > 0 /\ NotAllNaN(stripped[1]),
   rows |-> SelectSeq(stripped, NotAllNaN)]
stripCellsDropEmptyRows(grid) == Cleaned(StripRows(grid))

\* ------------------------------------------------------ label splitting
\* populateOfficesAndDistricts, the loop over the contests: for each contest
\* the pattern finds a district in, the rows of that office get the district
\* and the office cut before the match.  A contest that is no str makes
\* re's search raise TypeError.
SetDistrict(df, contest, district, office) ==
  [i \in DOMAIN df |->
     IF df[i].office = contest
     THEN [df[i] EXCEPT !.district = district, !.office = office]
     ELSE df[i]]

RECURSIVE PopulateLoop(_, _, _)
PopulateMatch(df, contests, k, m) ==
  PopulateLoop(IF m.found
               THEN SetDistrict(df, contests[k], Str(m.district),
                                Str(SubSeq(contests[k].s, 1, m.start)))
               ELSE df,
               contests, k + 1)

PopulateLoop(df, contests, k) ==
  IF k > Len(contests) THEN Ok(df)
  ELSE IF ~IsStr(contests[k]) THEN Raised("TypeError")
  ELSE PopulateMatch(df, contests, k, DistrictSearch(contests[k].s))

\* df['office'] = df['Contest Title'] and df['district'] = np.nan
WithOfficeDistrict(df) ==
  [i \in DOMAIN df |->
     [precinct |-> df[i].precinct, party |-> df[i].party,
      candidate |-> df[i].candidate, votes |-> df[i].votes,
      ContestTitle |-> df[i].ContestTitle,
      office |-> df[i].ContestTitle, district |-> NaN]]

Offices(df) == [i \in DOMAIN df |-> df[i].office]
Candidates(df) == [i \in DOMAIN df |-> df[i].candidate]

PopulateFrom(df) == PopulateLoop(df, DropDuplicates(Offices(df)), 1)

populateOfficesAndDistricts(df) == PopulateFrom(WithOfficeDistrict(df))

\* identifyOfficeAndDistrict: <<office, district>>.  Unpacking a split of
\* three parts or more raises inside the try, and so does splitting a
\* contest that is no str: office stays the contest and district None.
OfficeAndDistrict(contest, office_district) ==
  IF Len(office_district) > 2 THEN <<contest, None>>
  ELSE IF Len(office_district) > 1
  THEN <<Str(IF office_district[1] \in DOMAIN office_map
             THEN office_map[office_district[1]] ELSE office_district[1]),
         Str(office_district[2])>>
  ELSE <<Str(IF contest.s \in DOMAIN office_map THEN office_map[contest.s] ELSE contest.s),
         None>>

identifyOfficeAndDistrict(contest) ==
  IF ~IsStr(contest) THEN <<contest, None>>
  ELSE OfficeAndDistrict(contest, SplitDist(contest.s))

\* identifyCandidateAndParty: <<candidate, party>>; a candidate that is
\* neither missing nor a str makes re's search raise TypeError.
CandidateAndParty(origCandidate, m) ==
  IF m.found
  THEN <<Str(RemoveAll(origCandidate.s, m.whole)), Str(m.party)>>
  ELSE <<origCandidate, None>>

identifyCandidateAndParty(origCandidate) ==
  IF IsNaN(origCandidate) THEN Ok(<<origCandidate, None>>)
  ELSE IF ~IsStr(origCandidate) THEN Raised("TypeError")
  ELSE Ok(CandidateAndParty(origCandidate, PartySearch(origCandidate.s)))

\* ---------------------------------------------------------- normalizer
IsValidOffice(c) == IsStr(c) /\ c.s \in valid_offices
HasValidOffice(r) == IsValidOffice(r.office)
\* Series.str.title(): NaN for what is no str.
StrTitle(c) == IF IsStr(c) THEN Str(Title(c.s)) ELSE NaN
\* the lambdas of normalizeOfficesAndCandidates
normalize_offices(o) ==
  IF IsStr(o) /\ o.s \in DOMAIN office_map THEN Str(office_map[o.s]) ELSE o
normalize_pseudocandidates(c) ==
  IF IsStr(c) /\ c.s \in DOMAIN candidate_map THEN Str(candidate_map[c.s]) ELSE c

MapOffices(df) ==
  [i \in DOMAIN df |-> [df[i] EXCEPT !.office = normalize_offices(StrTitle(@))]]
MapCandidates(df) ==
  [i \in DOMAIN df |-> [df[i] EXCEPT !.candidate = normalize_pseudocandidates(@)]]

\* A normalizer that keeps the rows of every office.
normalizeOfficesAndCandidates_NoFilter(df) == MapCandidates(MapOffices(df))

\* The offices title-cased and mapped, the rows of other offices than the
\* valid ones dropped, the candidates mapped.
normalizeOfficesAndCandidates(df) ==
  MapCandidates(SelectSeq(MapOffices(df), HasValidOffice))

\* The six columns a county's table keeps.
KeepColumns(df) ==
  [i \in DOMAIN df |->
     [precinct |-> df[i].precinct, office |-> df[i].office,
      district |-> df[i].district, party |-> df[i].party,
      candidate |-> df[i].candidate, votes |-> df[i].votes]]

\* --------------------------------------------------------------- sort
\* a sorts before b in one key column of sort_values(ascending=True): NaN
\* last, text by code point, numbers by value.  (The key columns of the
\* files modelled hold text or NaN, never text and numbers together.)
CellLess(a, b) ==
  IF IsNaN(a) THEN FALSE
  ELSE IF IsNaN(b) THEN TRUE
  ELSE IF IsStr(a) /\ IsStr(b) THEN StrLess(a.s, b.s)
  ELSE IF IsNum(a) /\ IsNum(b) THEN a.n < b.n
  ELSE FALSE

\* a sorts before b by ['precinct', 'office', 'district', 'party', 'candidate'].
RECURSIVE KeyLess(_, _, _)
KeyLess(ka, kb, k) ==
  IF k > Len(ka) THEN FALSE
  ELSE IF CellLess(ka[k], kb[k]) THEN TRUE
  ELSE IF CellLess(kb[k], ka[k]) THEN FALSE
  ELSE KeyLess(ka, kb, k + 1)
SortKey(r) == <<r.precinct, r.office, r.district, r.party, r.candidate>>
RowLess(a, b) == KeyLess(SortKey(a), SortKey(b), 1)

\* df.sort_values([...]): rows with equal keys keep their order.
\* init, sorted, with the row last put after the rows that do not sort after it.
InsertRow(init, last) ==
  SelectSeq(init, LAMBDA r : ~RowLess(last, r)) \o <<last>>
  \o SelectSeq(init, LAMBDA r : RowLess(last, r))

RECURSIVE SortValues(_)
SortValues(df) ==
  IF Len(df) <= 1 THEN df
  ELSE InsertRow(SortValues(SubSeq(df, 1, Len(df) - 1)), df[Len(df)])

\* ------------------------------------------------------- the CSV files
\* The result of handling one file: the exception raised ("" when none),
\* whether a table was stored for the county, that table, and the labels
\* with the office and district split from each (one entry per row, taken
\* after the split and before the normalizer).
Handled(err, stored, table, splits) ==
  [err |-> err, stored |-> stored, table |-> table, splits |-> splits]

\* df["contest_number"] >= 100 (NaN compares False)
IsContestRow(row) == IsNum(row[3]) /\ row[3].n >= 100

\* The labels of a frame whose offices and districts have been populated,
\* with the office and district each row got.
PopulatedSplits(df) ==
  [i \in DOMAIN df |->
     [label |-> df[i].ContestTitle, office |-> df[i].office, district |-> df[i].district]]

\* The columns named one place off: candidate and precinct exchanged.
CsvColumns_Exchanged(contests) ==
  [i \in DOMAIN contests |->
     [votes |-> contests[i][5], party |-> contests[i][6],
      ContestTitle |-> contests[i][7], candidate |-> contests[i][9],
      precinct |-> contests[i][8]]]

\* The contest rows of a CSV under the names of their columns.
CsvColumns(contests) ==
  [i \in DOMAIN contests |->
     [votes |-> contests[i][5], party |-> contests[i][6],
      ContestTitle |-> contests[i][7], candidate |-> contests[i][8],
      precinct |-> contests[i][9]]]

\* The end of process_csv_file, the offices and districts populated.
CsvStore(populated) ==
  IF populated.err # "" THEN Handled(populated.err, FALSE, <<>>, <<>>)
  ELSE Handled("", TRUE,
               KeepColumns(SortValues(normalizeOfficesAndCandidates(populated.df))),
               PopulatedSplits(populated.df))

\* process_csv_file on the data rows read_csv returns (the file's first line is
\* their header); the columns are named by position, which raises ValueError
\* for a file of another width.
process_csv_file(rows) ==
  IF \E i \in DOMAIN rows : Len(rows[i]) # 10 THEN Handled("ValueError", FALSE, <<>>, <<>>)
  ELSE CsvStore(populateOfficesAndDistricts(
         CsvColumns(SelectSeq(stripCellsDropEmptyRows(rows).rows, IsContestRow))))

\* ------------------------------------------------ the spreadsheet files
\* df.rename(columns={...}) of process_contest_title_excel_file, one label
RenameColumn(c) ==
  IF c \in {Str("Party Code"), Str("Party")} THEN Str("party")
  ELSE IF c \in {Str("Candidate"), Str("Candidate Name")} THEN Str("candidate")
  ELSE c

\* The first column labelled name, 0 when there is none.
ColumnOf(columns, name) ==
  IF \E j \in DOMAIN columns : columns[j] = Str(name)
  THEN CHOOSE j \in DOMAIN columns :
         columns[j] = Str(name) /\ \A k \in 1..(j - 1) : columns[k] # Str(name)
  ELSE 0

\* pd.melt(df, id_vars=['Contest Title', 'party', 'candidate'], ...): the
\* other columns one after the other, each with all the rows.
MeltContestTitle(rows, columns, ct, pa, ca, value_vars) ==
  [k \in 1..(Len(rows) * Len(value_vars)) |->
     [ContestTitle |-> rows[((k - 1) % Len(rows)) + 1][ct],
      party |-> rows[((k - 1) % Len(rows)) + 1][pa],
      candidate |-> rows[((k - 1) % Len(rows)) + 1][ca],
      precinct |-> columns[value_vars[((k - 1) \div Len(rows)) + 1]],
      votes |-> rows[((k - 1) % Len(rows)) + 1][value_vars[((k - 1) \div Len(rows)) + 1]]]]

\* The columns, by position, that are none of the three id columns.
ValueVars(columns, ct, pa, ca) ==
  SelectSeq([j \in DOMAIN columns |-> j], LAMBDA j : j \notin {ct, pa, ca})

\* The end of process_contest_title_excel_file, the offices and districts populated.
ContestTitleStore(populated) ==
  IF populated.err # "" THEN Handled(populated.err, FALSE, <<>>, <<>>)
  ELSE Handled("", TRUE,
               KeepColumns(normalizeOfficesAndCandidates(populated.df)),
               PopulatedSplits(populated.df))

ContestTitleMelt(first0, rows, columns, ct, pa, ca) ==
  IF ~first0 \/ ct = 0 \/ pa = 0 \/ ca = 0
  THEN Handled("KeyError", FALSE, <<>>, <<>>)
  ELSE ContestTitleStore(populateOfficesAndDistricts(DropNaVotes(
         MeltContestTitle(rows, columns, ct, pa, ca, ValueVars(columns, ct, pa, ca)))))

ContestTitleColumns(first0, rows, columns) ==
  ContestTitleMelt(first0, rows, columns, ColumnOf(columns, "Contest Title"),
                   ColumnOf(columns, "party"), ColumnOf(columns, "candidate"))

\* process_contest_title_excel_file on the cleaned frame.  The first row
\* becomes the column labels and, the reindexed frame being thrown away, stays
\* a row of the data.  df.index.drop(0) raises KeyError when the row
\* labelled 0 was dropped as empty, and melt raises KeyError when one of its
\* id columns is missing.  (No file modelled has two columns of one id label.)
process_contest_title_excel_file(cleaned) ==
  ContestTitleColumns(cleaned.first0, cleaned.rows,
                      [j \in DOMAIN cleaned.rows[1] |-> RenameColumn(cleaned.rows[1][j])])

\* DataFrame.ffill(axis=1) of the first row: a missing cell takes the last
\* cell to its left that is not missing.
FillLast(init, last) == Append(init, IF IsNaN(last) THEN init[Len(init)] ELSE last)
RECURSIVE FFill(_)
FFill(row) ==
  IF Len(row) <= 1 THEN row
  ELSE FillLast(FFill(SubSeq(row, 1, Len(row) - 1)), row[Len(row)])

\* The loop over the contests of process_blank_header_excel_file: only a
\* district that is true in "if district:" rewrites the rows of the contest.
RECURSIVE ContestLoop(_, _, _)
ContestSplit(melted, contests, k, od) ==
  ContestLoop(IF Truthy(od[2]) THEN SetDistrict(melted, contests[k], od[2], od[1]) ELSE melted,
              contests, k + 1)

ContestLoop(melted, contests, k) ==
  IF k > Len(contests) THEN melted
  ELSE ContestSplit(melted, contests, k, identifyOfficeAndDistrict(contests[k]))

SetParty(df, origCandidate, party, candidate) ==
  [i \in DOMAIN df |->
     IF df[i].candidate = origCandidate
     THEN [df[i] EXCEPT !.party = party, !.candidate = candidate]
     ELSE df[i]]

\* The loop over the candidates of process_blank_header_excel_file.
RECURSIVE CandidateLoop(_, _, _)
CandidateSplit(melted, candidates, k, cp) ==
  IF cp.err # "" THEN Raised(cp.err)
  ELSE CandidateLoop(IF Truthy(cp.df[2])
                     THEN SetParty(melted, candidates[k], cp.df[2], cp.df[1])
                     ELSE melted,
                     candidates, k + 1)

CandidateLoop(melted, candidates, k) ==
  IF k > Len(candidates) THEN Ok(melted)
  ELSE CandidateSplit(melted, candidates, k, identifyCandidateAndParty(candidates[k]))

\* melted.loc[melted["precinct"] == 'CALCULATED TOTALS', 'precinct'] = 'Total'
RenameTotals(df) ==
  [i \in DOMAIN df |->
     IF df[i].precinct = Str("CALCULATED TOTALS")
     THEN [df[i] EXCEPT !.precinct = Str("Total")]
     ELSE df[i]]

\* The frame transposed, headed by its first row and unpivoted: the precinct
\* rows one after the other, each with all the columns after the first.
\* offices is row 0 filled forward.
BlankHeaderMelt(rows, offices) ==
  [k \in 1..((Len(rows) - 2) * (Len(rows[1]) - 1)) |->
     [office |-> offices[((k - 1) % (Len(rows[1]) - 1)) + 2],
      candidate |-> rows[2][((k - 1) % (Len(rows[1]) - 1)) + 2],
      precinct |-> rows[((k - 1) \div (Len(rows[1]) - 1)) + 3][1],
      votes |-> rows[((k - 1) \div (Len(rows[1]) - 1)) + 3][((k - 1) % (Len(rows[1]) - 1)) + 2]]]

\* melted['district'] = np.nan and melted['party'] = ''
WithDistrictParty(df) ==
  [i \in DOMAIN df |->
     [office |-> df[i].office, candidate |-> df[i].candidate,
      precinct |-> df[i].precinct, votes |-> df[i].votes,
      district |-> NaN, party |-> Str("")]]

\* The labels of the melted frame with the office and district each row has
\* after the loop over the contests.
BlankHeaderSplits(melted, split) ==
  [i \in DOMAIN split |->
     [label |-> melted[i].office, office |-> split[i].office, district |-> split[i].district]]

\* The end of process_blank_header_excel_file, the parties split out.
BlankHeaderStore(melted, split, parted) ==
  IF parted.err # "" THEN Handled(parted.err, FALSE, <<>>, <<>>)
  ELSE Handled("", TRUE,
               KeepColumns(normalizeOfficesAndCandidates(RenameTotals(parted.df))),
               BlankHeaderSplits(melted, split))

BlankHeaderCandidates(melted, split) ==
  BlankHeaderStore(melted, split, CandidateLoop(split, DropDuplicates(Candidates(split)), 1))

BlankHeaderContests(melted) ==
  BlankHeaderCandidates(melted, ContestLoop(melted, DropDuplicates(Offices(melted)), 1))

\* process_blank_header_excel_file on the cleaned frame: row 0 holds the
\* offices, row 1 the candidates, the rows after them one precinct each with
\* its name in column 0.  df.loc[[0]] raises KeyError when the row labelled 0
\* was dropped as empty; df.iloc[0, 1] raises IndexError when the transposed
\* frame has one column only.
process_blank_header_excel_file(cleaned) ==
  IF ~cleaned.first0 THEN Handled("KeyError", FALSE, <<>>, <<>>)
  ELSE IF Len(cleaned.rows) < 2 THEN Handled("IndexError", FALSE, <<>>, <<>>)
  ELSE BlankHeaderContests(WithDistrictParty(DropNaVotes(
         BlankHeaderMelt(cleaned.rows, FFill(cleaned.rows[1])))))

\* A classifier without the skip: every other first cell goes to the
\* Blank-Header strategy.
Classify_NoSkip(firstCell) ==
  IF firstCell = Str("Contest Title") THEN "contest_title" ELSE "blank_header"

\* The branch process_excel_file takes on the first cell of the cleaned frame.
Classify(firstCell) ==
  IF firstCell = Str("Contest Title") THEN "contest_title"
  ELSE IF IsNaN(firstCell) \/ IsValidOffice(firstCell) THEN "blank_header"
  ELSE "unrecognized"

\* process_excel_file on the first sheet read without a header.  df.iloc[0, 0]
\* raises IndexError on a frame left without rows.
ExcelBranch(df) ==
  IF df.rows = <<>> THEN Handled("IndexError", FALSE, <<>>, <<>>)
  ELSE IF Classify(df.rows[1][1]) = "contest_title" THEN process_contest_title_excel_file(df)
  ELSE IF Classify(df.rows[1][1]) = "blank_header" THEN process_blank_header_excel_file(df)
  ELSE Handled("", FALSE, <<>>, <<>>)

process_excel_file(grid) == ExcelBranch(stripCellsDropEmptyRows(grid))

\* --------------------------------------------------------- aggregation
\* A store that starts the dict afresh for each file.
StoreCounty_Afresh(dict, county, table) == <<[county |-> county, table |-> table]>>

\* self.statewide_dict[county] = table: a dict keeps the order in which its
\* keys were first set, and setting a key again replaces its value in place.
\* The dict is a sequence of [county, table] entries.
StoreCounty(dict, county, table) ==
  IF \E i \in DOMAIN dict : dict[i].county = county
  THEN [i \in DOMAIN dict |->
          IF dict[i].county = county THEN [county |-> county, table |-> table] ELSE dict[i]]
  ELSE Append(dict, [county |-> county, table |-> table])

\* One field of the CSV that to_csv(index=False, float_format='%.f') writes:
\* nothing for NaN, the text of a str, the digits of a number.
CsvField(c) == IF IsNaN(c) THEN "" ELSE IF IsStr(c) THEN c.s ELSE FormatInt(c.n)

\* pd.concat(self.statewide_dict).reset_index() without level_1 and with
\* level_0 renamed county, as written: the entries in the dict's order, each
\* row after its county.
RECURSIVE ConcatCounties(_)
ConcatCounties(dict) ==
  IF dict = <<>> THEN <<>>
  ELSE LET e == dict[Len(dict)]
       IN ConcatCounties(SubSeq(dict, 1, Len(dict) - 1)) \o
          [i \in DOMAIN e.table |->
             [county |-> e.county,
              precinct |-> CsvField(e.table[i].precinct),
              office |-> CsvField(e.table[i].office),
              district |-> CsvField(e.table[i].district),
              party |-> CsvField(e.table[i].party),
              candidate |-> CsvField(e.table[i].candidate),
              votes |-> CsvField(e.table[i].votes)]]

\* ------------------------------------------------------------- inputs
\* The inDirPath arguments tried.
InDirPaths ==
  {"data/AL/2016/", "data/AL/20141104-general/", "data/AL/2012/",
   "data/AL/2013-primary/", "data/AL/1998/", "data/AL/2010", "data/AL/2016"}

\* One data row of a county CSV in its ten-column layout.
CsvRow(contest_number, votes, party, title, candidate, precinct) ==
  <<Str("Alabama"), Str("2016-11-08"), contest_number, Num(1), votes, party,
    title, candidate, precinct, NaN>>

\* The files a directory may hold (glob may return any of them, in any
\* order): name, and the rows read from it (for a CSV the data rows after the
\* header line, for a spreadsheet the first sheet read without a header).
JeffersonCsv ==
  [name |-> "2016-General-Jefferson.csv",
   rows |-> <<CsvRow(Num(201), Num(150), Str("D"), Str("United States Senator"),
                     Str("Jane Doe"), Str("Ward 1"))>>]
MobileCsv ==
  [name |-> "2016-General-Mobile.csv",
   rows |-> <<CsvRow(Num(1), Num(999), NaN, Str("REGISTERED VOTERS - TOTAL"), NaN, Str("Ward 2")),
              <<NaN, Str("  "), NaN, NaN, NaN, NaN, NaN, NaN, NaN, NaN>>,
              CsvRow(Num(301), Num(12), Str("REP"), Str("STATE SENATOR, DISTRICT NO. 15"),
                     Str("Write-In"), Str("Ward 2")),
              CsvRow(Num(302), Num(8), Str("DEM"), Str("State Senate, District 15"),
                     Str("Bob Roe"), Str("Ward 2")),
              CsvRow(Num(101), NaN, Str("REP"), Str("GOVERNOR"), Str("Al Ray"), Str("Beat 1")),
              CsvRow(Num(102), Num(4), Str(" DEM"), Str("Secretary of State"),
                     Str("Cy Dow"), Str("Beat 1 ")),
              CsvRow(Num(103), Num(6), Str(" DEM"), Str("ATTORNEY GENERAL"),
                     Str("Di Eck"), Str("Beat 1 ")),
              CsvRow(Num(400), Num(2), NaN, Str("SHERIFF"), Str("Gus Hay"), Str("Beat 1"))>>]
JeffersonXlsx ==
  [name |-> "2016-General-Jefferson.xlsx",
   rows |-> <<<<Str("Contest Title"), Str("Party Code"), Str("Candidate"),
                Str("Precinct A"), Str("Precinct B")>>,
              <<Str("UNITED STATES SENATOR"), Str("DEM"), Str("Jane Doe"), Num(10), NaN>>,
              <<Str("State Senate, District 15"), Str("REP"), Str("Bob Roe"), Num(3), Num(4)>>,
              <<Str("STATE SENATOR, DISTRICT NO. 15"), Str("REP"), Str("Write-In"), Num(5), Str("")>>,
              <<Str("President"), Str("DEM"), Str("Ann Lee"), Num(7), Num(8)>>>>]
ShelbyXls ==
  [name |-> "2016-General-Shelby.xls",
   rows |-> <<<<Str("Contest Title "), Str("Party"), Str("Candidate Name"), Str("Box 1")>>,
              <<Str("PRESIDENT AND VICE PRESIDENT OF THE UNITED STATES"), Str("REP"),
                Str("Al Ray"), Num(20)>>,
              <<NaN, NaN, NaN, NaN>>,
              <<Str("UNITED STATES REPRESENTATIVE, 6TH CONGRESSIONAL DISTRICT"), Str("REP"),
                Str("Bo Poe"), Num(21)>>,
              <<Str("Secretary of State"), Str("DEM"), Str("Cy Dow"), Num(22)>>,
              <<Str("US Rep, 3"), Str("DEM"), Str("Di Eck"), Num(23)>>>>]
AutaugaXls ==
  [name |-> "2014-General-Autauga.xls",
   rows |-> <<<<NaN, Str("Governor"), NaN, Str("State Sen Dist 5"), Str("State Sen Dist."),
                Str("Sheriff")>>,
              <<NaN, Str("Ann Lee (R)"), Str("Write-In"), Str("Cy Dow (D)"), Str("Eve Fox (R)"),
                Str("Gus Hay")>>,
              <<Str("Pct 1"), Num(5), Num(6), Num(7), Num(8), Num(9)>>,
              <<Str("CALCULATED TOTALS"), Num(5), NaN, Num(7), Num(8), Num(9)>>>>]
BaldwinXlsx ==
  [name |-> "2014-General-Baldwin.xlsx",
   rows |-> <<<<Str("Governor"), NaN, Str("US Rep - Dist. 3"), Str("State Rep Dist 1 Dist 2")>>,
              <<Str("Precinct"), Str("Al Ray (R)"), Str("Bo Poe(D)"), Str("Di Eck")>>,
              <<Str("Box 9"), Num(1), Num(2), Num(3)>>>>]
BibbXlsx ==
  [name |-> "2014-General-Bibb.xlsx",
   rows |-> <<<<Str("Precinct Results"), Str("Governor"), Str("Governor")>>,
              <<NaN, Str("Ann Lee (R)"), Str("Cy Dow (D)")>>,
              <<Str("Pct 1"), Num(5), Num(6)>>>>]
CoosaXls ==
  [name |-> "2016-General-Coosa.xls",
   rows |-> <<<<Str(" "), NaN, NaN, NaN>>,
              <<Str("Contest Title"), Str("Party"), Str("Candidate"), Str("Box 1")>>,
              <<Str("GOVERNOR"), Str("REP"), Str("Al Ray"), Num(20)>>>>]
ReadmeTxt == [name |-> "README.txt", rows |-> <<>>]

Catalog ==
  {JeffersonCsv, MobileCsv, JeffersonXlsx, ShelbyXls, AutaugaXls, BaldwinXlsx,
   BibbXlsx, CoosaXls, ReadmeTxt}

FileNamed(name) == CHOOSE f \in Catalog : f.name = name

\* The rows the normalizer is tried on, on its own.
NormRow(office, candidate) ==
  [precinct |-> Str("Ward 1"), office |-> office, district |-> NaN,
   party |-> Str("D"), candidate |-> candidate, votes |-> Num(150)]
NormOffices ==
  {Str(o) : o \in valid_offices \cup DOMAIN office_map} \cup
  {Str("GOVERNOR"), Str("united states senator"), Str("Sheriff"), NaN}
NormRows ==
  {NormRow(o, Str("Jane Doe")) : o \in NormOffices} \cup
  {NormRow(Str("Governor"), c) : c \in {Str("Write-In"), Str("Write-ins"), NaN}}

\* --------------------------------------------------------------- state
VARIABLES
  inDirPath,       \* args.inDirPath
  pc,              \* where main is: "main", "loop" (inside
                   \* process_election_directory), "done" (output written),
                   \* "exit" (main returned without processing), "raised"
                   \* (ended by an exception), "off" (no run)
  processed,       \* names of the files the loop has handled, in order
  statewide_dict,  \* self.statewide_dict
  output,          \* the file at outFilePath: [written, rows]
  last,            \* the last file's handling: [strategy, stored, splits]
  passes           \* the normalizer on its own: the table given, then the
                   \* table after each application

vars == <<inDirPath, pc, processed, statewide_dict, output, last, passes>>

NoOutput == [written |-> FALSE, rows |-> <<>>]
NoFile == [strategy |-> "", stored |-> FALSE, splits |-> <<>>]

Init ==
  /\ inDirPath \in InDirPaths
  /\ pc = "main"
  /\ processed = <<>>
  /\ statewide_dict = <<>>
  /\ output = NoOutput
  /\ last = NoFile
  /\ passes = <<>>

\* main: the processor is built and, when it exists and is supported,
\* process_election_directory is entered.
Main ==
  /\ pc = "main"
  /\ pc' = LET made == NewProcessor(inDirPath)
           IN IF made = "XLSProcessor_2014" THEN "loop"
              ELSE IF made = "None" THEN "exit"
              ELSE "raised"
  /\ UNCHANGED <<inDirPath, processed, statewide_dict, output, last, passes>>

\* The files glob has still to return.
Pending == {f \in Catalog : \A i \in DOMAIN processed : processed[i] # f.name}

\* The loop's body, once a file has been handled as h under strategy.
AfterFile(f, county, strategy, h) ==
  /\ processed' = Append(processed, f.name)
  /\ statewide_dict' = IF h.stored THEN StoreCounty(statewide_dict, county, h.table)
                       ELSE statewide_dict
  /\ last' = [strategy |-> strategy, stored |-> h.stored, splits |-> h.splits]
  /\ pc' = IF h.err # "" THEN "raised" ELSE "loop"
  /\ UNCHANGED <<inDirPath, output, passes>>

\* One turn of the loop on a file whose name the pattern does not match.
SkipFile ==
  /\ pc = "loop"
  /\ Len(processed) < MaxFiles
  /\ \E f \in Pending :
       /\ ~FileNameMatch(f.name).ok
       /\ AfterFile(f, "", "no_match", Handled("", FALSE, <<>>, <<>>))

\* The strategy process_excel_file takes for a sheet.
ExcelStrategy(grid) ==
  LET df == stripCellsDropEmptyRows(grid)
  IN IF df.rows = <<>> THEN "" ELSE Classify(df.rows[1][1])

\* One turn of the loop on an .xlsx or .xls file.
ExcelFile ==
  /\ pc = "loop"
  /\ Len(processed) < MaxFiles
  /\ \E f \in Pending :
       LET m == FileNameMatch(f.name)
       IN /\ m.ok
          /\ m.ext \in {"xlsx", "xls"}
          /\ AfterFile(f, m.county, ExcelStrategy(f.rows), process_excel_file(f.rows))

\* One turn of the loop on a .csv file.
CsvFile ==
  /\ pc = "loop"
  /\ Len(processed) < MaxFiles
  /\ \E f \in Pending :
       LET m == FileNameMatch(f.name)
       IN /\ m.ok
          /\ m.ext = "csv"
          /\ AfterFile(f, m.county, "csv", process_csv_file(f.rows))

\* The end of process_election_directory, glob having returned its last file:
\* pd.concat raises ValueError on a dict without entries, else the statewide
\* table is written.
Finish ==
  /\ pc = "loop"
  /\ IF statewide_dict = <<>>
     THEN pc' = "raised" /\ output' = output
     ELSE pc' = "done" /\ output' = [written |-> TRUE, rows |-> ConcatCounties(statewide_dict)]
  /\ UNCHANGED <<inDirPath, processed, statewide_dict, last, passes>>

Next == Main \/ SkipFile \/ ExcelFile \/ CsvFile \/ Finish

Spec == Init /\ [][Next]_vars

\* ------------------------------------------- the normalizer on its own
NormTables == UNION {[1..n -> NormRows] : n \in 0..MaxNormRows}

NormInit ==
  /\ passes \in {<<t>> : t \in NormTables}
  /\ inDirPath = ""
  /\ pc = "off"
  /\ processed = <<>>
  /\ statewide_dict = <<>>
  /\ output = NoOutput
  /\ last = NoFile

\* normalizeOfficesAndCandidates applied to the table it returned last.
Normalize ==
  /\ pc = "off"
  /\ Len(passes) <= MaxPasses
  /\ passes' = Append(passes, normalizeOfficesAndCandidates(passes[Len(passes)]))
  /\ UNCHANGED <<inDirPath, pc, processed, statewide_dict, output, last>>

NormNext == Normalize

SpecNorm == NormInit /\ [][NormNext]_vars

\* ============================================================ properties
\* The ten offices of the allow-list, as the specification lists them.
AllowList ==
  {"President", "U.S. Senate", "U.S. House", "Governor", "Lieutenant Governor",
   "State Senate", "State House", "Attorney General", "Secretary of State",
   "State Treasurer"}

\* The rows of every table stored in the dict.
StoredRows == UNION {{e.table[i] : i \in DOMAIN e.table} : e \in {statewide_dict[k] : k \in DOMAIN statewide_dict}}
OutputRows == {output.rows[i] : i \in DOMAIN output.rows}
\* The labels the last file's strategy split, with what each row got.
LastSplits == {last.splits[i] : i \in DOMAIN last.splits}

\* C1: every row stored in a county's table, and every row of the statewide
\* table written, has an office of the allow-list.
C1_AllowListInvariant ==
  /\ \A r \in StoredRows : IsStr(r.office) /\ r.office.s \in AllowList
  /\ \A r \in OutputRows : r.office \in AllowList

\* C1 witness: a run that handled the Mobile CSV (it holds a SHERIFF row and
\* an unmapped label) and wrote rows.
C1_Witness ==
  /\ pc = "done"
  /\ output.rows # <<>>
  /\ \E i \in DOMAIN processed : processed[i] = "2016-General-Mobile.csv"

\* C2 (as claimed): no row stored or written has missing or blank votes,
\* whichever strategy handled its file.
C2_NoBlankVotes ==
  /\ \A r \in StoredRows : ~IsNaN(r.votes) /\ r.votes # Str("")
  /\ \A r \in OutputRows : r.votes # ""

\* C3 (as claimed): populateOfficesAndDistricts turns the label
\* "State Senate, District 15" into office "State Senate" and district "15",
\* and leaves "President" as it is with no district.
C3_Original ==
  last.strategy \in {"contest_title", "csv"} =>
    \A r \in LastSplits :
      /\ r.label = Str("State Senate, District 15") =>
           r.office = Str("State Senate") /\ r.district = Str("15")
      /\ r.label = Str("President") => r.office = Str("President") /\ IsNaN(r.district)

\* The label reads: the office, a comma or a space, a space, "DISTRICT NO"
\* with any character and a space after it or nothing, the district, and no
\* digit next.
ReadsAsDistrict(label, office, district) ==
  LET n == Len(office)
      d == IF StartsWithAt(label, n + 3, "DISTRICT NO") THEN n + 16 ELSE n + 3
  IN /\ SubSeq(label, 1, n) = office
     /\ Ch(label, n + 1) \in {" ", ","}
     /\ Ch(label, n + 2) = " "
     /\ StartsWithAt(label, n + 3, "DISTRICT NO") => Ch(label, n + 15) = " "
     /\ district # ""
     /\ \A i \in 1..Len(district) : IsDigit(Ch(district, i))
     /\ StartsWithAt(label, d, district)
     /\ ~IsDigit(Ch(label, d + Len(district)))

\* C3 (amended): populateOfficesAndDistricts sets a district only from a label
\* in which a comma or space, a space, optionally "DISTRICT NO. ", and digits
\* follow one another; the district is that run of digits and the office the
\* label before the match.  "STATE SENATOR, DISTRICT NO. 15" gives
\* "STATE SENATOR" and "15"; "President" and "State Senate, District 15" keep
\* their office and get no district.
C3_DistrictExtraction ==
  last.strategy \in {"contest_title", "csv"} =>
    \A r \in LastSplits :
      /\ IsNaN(r.district) \/ IsStr(r.district)
      /\ IsNaN(r.district) => r.office = r.label
      /\ IsStr(r.district) => ReadsAsDistrict(r.label.s, r.office.s, r.district.s)
      /\ r.label = Str("STATE SENATOR, DISTRICT NO. 15") =>
           r.office = Str("STATE SENATOR") /\ r.district = Str("15")
      /\ r.label = Str("US Rep, 3") => r.office = Str("US Rep") /\ r.district = Str("3")
      /\ r.label \in {Str("President"), Str("State Senate, District 15")} =>
           r.office = r.label /\ IsNaN(r.district)

\* C3 witness: a Contest-Title sheet was handled and its label
\* "STATE SENATOR, DISTRICT NO. 15" got district 15, its label "President" none.
C3_Witness ==
  /\ last.strategy = "contest_title"
  /\ \E r \in LastSplits :
       r.label = Str("STATE SENATOR, DISTRICT NO. 15") /\ r.district = Str("15")
  /\ \E r \in LastSplits : r.label = Str("President") /\ IsNaN(r.district)

\* The run handled one file, a CSV, and wrote its output.
OneCsvDone ==
  /\ pc = "done"
  /\ Len(processed) = 1
  /\ FileNameMatch(processed[1]).ok
  /\ FileNameMatch(processed[1]).ext = "csv"

\* The office a Contest Title comes to: the label before its district,
\* title-cased and mapped.
OfficeOfTitle(title) ==
  IF ~IsStr(title) THEN NaN
  ELSE LET m == DistrictSearch(title.s)
       IN normalize_offices(StrTitle(IF m.found THEN Str(SubSeq(title.s, 1, m.start)) ELSE title))

\* The rows of the CSV that count: contest_number >= 100 and a Contest Title
\* that comes to an office of the allow-list.
CountingRows(rows) ==
  {i \in DOMAIN rows :
     /\ IsNum(rows[i][3]) /\ rows[i][3].n >= 100
     /\ IsStr(StripCell(rows[i][7]))
     /\ IsStr(OfficeOfTitle(StripCell(rows[i][7])))
     /\ OfficeOfTitle(StripCell(rows[i][7])).s \in AllowList}

\* The row of the Jefferson example as it is to be written.
JeffersonRow ==
  [county |-> "Jefferson", precinct |-> "Ward 1", office |-> "U.S. Senate",
   district |-> "", party |-> "D", candidate |-> "Jane Doe", votes |-> "150"]

Stripped(c) == IF IsStr(c) THEN Strip(c.s) ELSE CsvField(c)
\* A candidate as written: stripped, and "Write-In" as "Write-ins".
WrittenCandidate(c) == IF Stripped(c) = "Write-In" THEN "Write-ins" ELSE Stripped(c)

UnrecognizedSheet(name) ==
  /\ FileNameMatch(name).ok
  /\ FileNameMatch(name).ext \in {"xlsx", "xls"}
  /\ LET rows == stripCellsDropEmptyRows(FileNamed(name).rows).rows
     IN /\ rows # <<>>
        /\ IsStr(rows[1][1])
        /\ rows[1][1].s # "Contest Title"
        /\ rows[1][1].s \notin AllowList

\* C5: the turn of the loop that handles an unrecognized spreadsheet stores
\* nothing and leaves the dict and the output as they were, and the loop goes
\* on: the run is not ended by it.
C5_SkipUnrecognized ==
  [][(/\ Len(processed') = Len(processed) + 1
      /\ UnrecognizedSheet(processed'[Len(processed')]))
     => /\ statewide_dict' = statewide_dict
        /\ ~last'.stored
        /\ output' = output
        /\ pc' = "loop"]_vars

\* C5 witness: the unrecognized Bibb sheet was handled first, the Jefferson
\* CSV after it, and the run wrote the Jefferson row alone.
C5_Witness ==
  /\ processed = <<"2014-General-Bibb.xlsx", "2016-General-Jefferson.csv">>
  /\ pc = "done"
  /\ output.rows = <<JeffersonRow>>

\* The name of the input directory: the last component of the path.
DirectoryName(path) ==
  LET p == RStripSlashes(path) IN SubSeq(p, LastSlash(p) + 1, Len(p))
BeginsWithYearBelow(name, y) ==
  /\ \A i \in 1..4 : IsDigit(Ch(name, i))
  /\ ParseInt(SubSeq(name, 1, 4)) < y

C7_Idempotent ==
  \A k \in 2..(Len(passes) - 1) : passes[k + 1] = passes[k]

\* C7 witness: a table the first application changed and did not empty, and
\* a second application made.
C7_Witness ==
  /\ Len(passes) >= 3
  /\ passes[2] # passes[1]
  /\ passes[2] # <<>>
  /\ \E i \in DOMAIN passes[2] : passes[2][i].candidate = Str("Write-ins")

\* C8 (as claimed): no turn of the loop removes or replaces a table stored
\* before it.
C8_Original ==
  [][\A i \in DOMAIN statewide_dict :
       \E j \in DOMAIN statewide_dict' : statewide_dict'[j] = statewide_dict[i]]_vars

\* The output holds the rows of the entry, under its county.
Written(e, rows) ==
  \A i \in DOMAIN e.table :
    \E k \in DOMAIN rows :
      /\ rows[k].county = e.county
      /\ rows[k].precinct = CsvField(e.table[i].precinct)
      /\ rows[k].office = CsvField(e.table[i].office)
      /\ rows[k].district = CsvField(e.table[i].district)
      /\ rows[k].party = CsvField(e.table[i].party)
      /\ rows[k].candidate = CsvField(e.table[i].candidate)
      /\ rows[k].votes = CsvField(e.table[i].votes)

\* C8 (amended): a turn of the loop keeps every county's entry in its place,
\* and keeps its table unless the file handled parses to that county's name
\* and stores a table, which then replaces it; the output written holds the
\* rows of the table each county has at the end.
C8_AppendOnlyPerCounty ==
  [][/\ \A i \in DOMAIN statewide_dict :
          /\ i \in DOMAIN statewide_dict'
          /\ statewide_dict'[i].county = statewide_dict[i].county
          /\ \/ statewide_dict'[i].table = statewide_dict[i].table
             \/ /\ Len(processed') = Len(processed) + 1
                /\ last'.stored
                /\ FileNameMatch(processed'[Len(processed')]).county = statewide_dict[i].county
     /\ pc' = "done" =>
          \A i \in DOMAIN statewide_dict' : Written(statewide_dict'[i], output'.rows)]_vars

\* C8 witness: the Jefferson CSV stored a table, the Jefferson spreadsheet
\* handled after it stored its own in the same entry, and the output written
\* holds the rows of the table the county has at the end.
C8_Witness ==
  /\ pc = "done"
  /\ processed = <<"2016-General-Jefferson.csv", "2016-General-Jefferson.xlsx">>
  /\ Len(statewide_dict) = 1
  /\ statewide_dict[1].county = "Jefferson"
  /\ Len(statewide_dict[1].table) > 1
  /\ Written(statewide_dict[1], output.rows)
  /\ Len(output.rows) = Len(statewide_dict[1].table)

\* C9 (as claimed): in the Blank-Header strategy every label that the "dist"
\* pattern splits in two gives its rows the first part, mapped when it is a
\* raw office name, as office and the second part as district.
C9_BlankHeaderSplit ==
  last.strategy = "blank_header" =>
    \A r \in LastSplits :
      (IsStr(r.label) /\ Len(SplitDist(r.label.s)) = 2) =>
        LET parts == SplitDist(r.label.s)
        IN /\ r.office = Str(IF parts[1] \in DOMAIN office_map
                             THEN office_map[parts[1]] ELSE parts[1])
           /\ r.district = Str(parts[2])

\* C10 (as claimed): a row whose office is a name of the allow-list leaves the
\* normalizer with that office, and a row whose office is a raw key of the
\* office map leaves it with the office the key maps to.
C10_Retainable ==
  Len(passes) >= 2 =>
    \A i \in DOMAIN passes[1] :
      LET o == passes[1][i].office
      IN /\ (IsStr(o) /\ o.s \in AllowList) =>
              \E k \in DOMAIN passes[2] : passes[2][k].office = o
         /\ (IsStr(o) /\ o.s \in DOMAIN office_map) =>
              \E k \in DOMAIN passes[2] : passes[2][k].office = Str(office_map[o.s])
====
